---------------------------- MODULE Spec2Model ----------------------------
(***************************************************************************)
(* Ballistic dynamics engine of "Ballistics-MatrixInverses/Ballistic       *)
(* simulation.py": class BallisticSimulator (compute_dynamics, simulate,   *)
(* calculate_optimal_v0, add_simulation, clear_simulations).               *)
(*                                                                         *)
(* Numbers.  The program computes in IEEE double precision (numpy).  The   *)
(* model computes in exact rational arithmetic: a number is a pair         *)
(* <<n, d>> in lowest terms with d > 0.  Rounding, overflow to inf and NaN *)
(* are therefore outside the model; every statement below about equality   *)
(* of numbers is a statement about exact arithmetic.                       *)
(***************************************************************************)
EXTENDS Integers, Sequences, FiniteSets, TLC

(***************************************************************************)
(* Bounds of the model.                                                    *)
(***************************************************************************)
MaxT == 3

MaxCalls == 4

\* The simulators a caller constructs, the first one included.
MaxInstances == 2

\* The records a caller adds to a further simulator's registry.
MaxLen == 2

(***************************************************************************)
(* Exact rational arithmetic (python float / numpy scalar arithmetic).     *)
(***************************************************************************)
Abs(n) == IF n < 0 THEN -n ELSE n

RECURSIVE Gcd(_, _)
Gcd(a, c) == IF c = 0 THEN a ELSE Gcd(c, a % c)

\* The rational n/d (d # 0) in lowest terms with a positive denominator.
Q(n, d) ==
    LET s == IF d < 0 THEN -1 ELSE 1
        k == Gcd(Abs(n), Abs(d))
    IN  <<(s * n) \div k, (s * d) \div k>>

R(n) == <<n, 1>>

RAdd(p, q) ==
    IF p[1] = 0 THEN q
    ELSE IF q[1] = 0 THEN p
    ELSE IF p[2] = 1 /\ q[2] = 1 THEN <<p[1] + q[1], 1>>
    ELSE LET k == Gcd(p[2], q[2])
         IN  Q(p[1] * (q[2] \div k) + q[1] * (p[2] \div k), (p[2] \div k) * q[2])

RNeg(p) == <<-p[1], p[2]>>

RSub(p, q) == RAdd(p, RNeg(q))

\* p and q are in lowest terms, so cancelling crosswise leaves lowest terms
RMul(p, q) ==
    IF p[1] = 0 \/ q[1] = 0 THEN <<0, 1>>
    ELSE IF p[2] = 1 /\ q[2] = 1 THEN <<p[1] * q[1], 1>>
    ELSE LET k1 == Gcd(Abs(p[1]), q[2])
             k2 == Gcd(Abs(q[1]), p[2])
         IN  <<(p[1] \div k1) * (q[1] \div k2), (p[2] \div k2) * (q[2] \div k1)>>

\* p / q for q # 0
RDiv(p, q) == RMul(p, Q(q[2], q[1]))

RLess(p, q) == p[1] * q[2] < q[1] * p[2]

RAbs(p) == <<Abs(p[1]), p[2]>>

(***************************************************************************)
(* Vectors are sequences of rationals, matrices are sequences of rows      *)
(* (numpy arrays).                                                         *)
(***************************************************************************)
RECURSIVE RSum(_)
RSum(s) == IF s = <<>> THEN R(0) ELSE RAdd(s[1], RSum(Tail(s)))

\* The array <<f[1], ..., f[n]>> with every entry computed once.
RECURSIVE Tabulate(_, _)
Tabulate(f, n) == IF n = 0 THEN <<>> ELSE Append(Tabulate(f, n - 1), f[n])

\* np.zeros(n)
Zeros(n) == Tabulate([i \in 1..n |-> R(0)], n)

\* np.zeros((n, k))
ZerosMat(n, k) == Tabulate([i \in 1..n |-> Zeros(k)], n)

\* np.eye(n)
Eye(n) ==
    Tabulate([i \in 1..n |->
                 Tabulate([j \in 1..n |-> IF i = j THEN R(1) ELSE R(0)], n)], n)

\* c * v, a scalar times a vector
ScalVec(c, v) == Tabulate([i \in 1..Len(v) |-> RMul(c, v[i])], Len(v))

\* c * M, a scalar times a matrix
ScalMat(c, M) == Tabulate([i \in 1..Len(M) |-> ScalVec(c, M[i])], Len(M))

\* u + v
VecAdd(u, v) == Tabulate([i \in 1..Len(u) |-> RAdd(u[i], v[i])], Len(u))

\* u - v
VecSub(u, v) == Tabulate([i \in 1..Len(u) |-> RSub(u[i], v[i])], Len(u))

\* the inner product of a row and a vector
Dot(r, v) == RSum(Tabulate([j \in 1..Len(v) |-> RMul(r[j], v[j])], Len(v)))

\* M @ v
MatVec(M, v) == Tabulate([i \in 1..Len(M) |-> Dot(M[i], v)], Len(M))

\* column j of N
Column(N, j) == Tabulate([k \in 1..Len(N) |-> N[k][j]], Len(N))

\* M @ N
MatMul(M, N) ==
    Tabulate([i \in 1..Len(M) |->
                 Tabulate([j \in 1..Len(N[1]) |-> Dot(M[i], Column(N, j))],
                          Len(N[1]))], Len(M))

\* np.linalg.matrix_power(M, k) for k >= 0 (the identity for k = 0)
RECURSIVE MatPow(_, _)
MatPow(M, k) == IF k = 0 THEN Eye(Len(M)) ELSE MatMul(MatPow(M, k - 1), M)

\* np.block([[M11, M12], [M21, M22]]) of 2x2 blocks
Block(M11, M12, M21, M22) ==
    << M11[1] \o M12[1], M11[2] \o M12[2], M21[1] \o M22[1], M21[2] \o M22[2] >>

\* M[r1:r2, c1:c2] in 1-based inclusive bounds
Slice(M, r1, r2, c1, c2) ==
    Tabulate([i \in 1..(r2 - r1 + 1) |-> SubSeq(M[r1 + i - 1], c1, c2)], r2 - r1 + 1)

Det2(M) == RSub(RMul(M[1][1], M[2][2]), RMul(M[1][2], M[2][1]))

\* np.linalg.inv of an invertible 2x2 matrix
Inv2(M) ==
    LET dt == Det2(M)
    IN  << <<RDiv(M[2][2], dt), RDiv(RNeg(M[1][2]), dt)>>,
           <<RDiv(RNeg(M[2][1]), dt), RDiv(M[1][1], dt)>> >>


(***************************************************************************)
(* State.                                                                  *)
(*   simulations  BallisticSimulator.simulations, the registry             *)
(*   params       the parameter record (dict) the caller holds and passes  *)
(*   pc           "idle", or "simulate" while simulate's loop runs         *)
(*   A, b, x, trajectory, t   simulate's locals; stop is the end of its    *)
(*                range(1, T + 1), evaluated once                          *)
(*   written      the indices of trajectory assigned so far                *)
(*   ret          the outcome of the last call that returned or raised     *)
(*   aim          the target whose solved velocity the caller put into     *)
(*                params.v0 (<<>> when it did not)                         *)
(*   log          history: the calls of add_simulation (<<"add", record>>) *)
(*                and clear_simulations (<<"clear">>) made so far          *)
(*   entries      BallisticGUI.entries: the text of each parameter field   *)
(*   dialogs      the message boxes the last GUI handler showed            *)
(***************************************************************************)
VARIABLES simulations, params, pc, A, b, x, trajectory, t, stop, written, ret, aim,
          log, entries, dialogs, target, owner, lists, it, listing, observed

vars ==
    <<simulations, params, pc, A, b, x, trajectory, t, stop, written, ret, aim, log,
      entries, dialogs, target, owner, lists, it, listing, observed>>

\* What the engine, the registry of the first simulator and the parameter
\* form leave alone: the target fields, further simulators and a reader of
\* the registry.
elsewhere == <<target, owner, lists, it, listing, observed>>

gui == <<entries, dialogs>>

locals == <<A, b, x, trajectory, t, stop>>

NoRet == [op |-> "none", kind |-> "none", val |-> <<>>, arg |-> <<>>]

(***************************************************************************)
(* compute_dynamics(params): the pair <<A, b>>.                            *)
(***************************************************************************)
\* Mutant: the drag term multiplies by the mass instead of dividing by it.
compute_dynamics_MassMultiplied(p) ==
    LET h == p.h
        m == p.m
        eta == p.eta
        w == p.w
        g == p.g
        I == Eye(2)
        hI == ScalMat(h, I)
        drag_factor == RSub(R(1), RMul(RMul(h, eta), m))
    IN  << Block(I, hI, ZerosMat(2, 2), ScalMat(drag_factor, I)),
           Zeros(2) \o ScalVec(h, VecAdd(g, ScalVec(RDiv(eta, m), w))) >>

\* Mutant: a drag_factor outside [-1, 1] is clamped to the nearest bound.
compute_dynamics_Clamped(p) ==
    LET h == p.h
        m == p.m
        eta == p.eta
        w == p.w
        g == p.g
        I == Eye(2)
        hI == ScalMat(h, I)
        raw == RSub(R(1), RDiv(RMul(h, eta), m))
        drag_factor == IF RLess(raw, R(-1)) THEN R(-1)
                       ELSE IF RLess(R(1), raw) THEN R(1) ELSE raw
    IN  << Block(I, hI, ZerosMat(2, 2), ScalMat(drag_factor, I)),
           Zeros(2) \o ScalVec(h, VecAdd(g, ScalVec(RDiv(eta, m), w))) >>

\* Mutant: the forcing also moves the position within the step (b's position
\* part is h.h.(g + (eta/m).w) instead of zero).
compute_dynamics_ForcedPosition(p) ==
    LET h == p.h
        m == p.m
        eta == p.eta
        w == p.w
        g == p.g
        I == Eye(2)
        hI == ScalMat(h, I)
        drag_factor == RSub(R(1), RDiv(RMul(h, eta), m))
        force == VecAdd(g, ScalVec(RDiv(eta, m), w))
    IN  << Block(I, hI, ZerosMat(2, 2), ScalMat(drag_factor, I)),
           ScalVec(RMul(h, h), force) \o ScalVec(h, force) >>

\* Mutant: the x position also advances by h times the y velocity (the
\* upper right block is h.[[1, 1], [0, 1]] instead of h.I).
compute_dynamics_Coupled(p) ==
    LET h == p.h
        m == p.m
        eta == p.eta
        w == p.w
        g == p.g
        I == Eye(2)
        hU == << <<h, h>>, <<R(0), h>> >>
        drag_factor == RSub(R(1), RDiv(RMul(h, eta), m))
    IN  << Block(I, hU, ZerosMat(2, 2), ScalMat(drag_factor, I)),
           Zeros(2) \o ScalVec(h, VecAdd(g, ScalVec(RDiv(eta, m), w))) >>

compute_dynamics(p) ==
    LET h == p.h
        m == p.m
        eta == p.eta
        w == p.w
        g == p.g
        I == Eye(2)
        hI == ScalMat(h, I)
        drag_factor == RSub(R(1), RDiv(RMul(h, eta), m))
    IN  << Block(I, hI, ZerosMat(2, 2), ScalMat(drag_factor, I)),
           Zeros(2) \o ScalVec(h, VecAdd(g, ScalVec(RDiv(eta, m), w))) >>

(***************************************************************************)
(* calculate_optimal_v0, its parts.                                        *)
(***************************************************************************)
\* F = np.linalg.matrix_power(A, T)
PowerF(M, T) == MatPow(M, T)

\* Mutant: the sum runs over k in range(1, T + 1).
RECURSIVE ForcingJ_FromOne(_, _, _)
ForcingJ_FromOne(M, v, T) ==
    IF T = 1 THEN MatVec(MatPow(M, 1), v)
    ELSE VecAdd(ForcingJ_FromOne(M, v, T - 1), MatVec(MatPow(M, T), v))

\* j = sum(np.linalg.matrix_power(A, k) @ b for k in range(T)), T >= 1
RECURSIVE ForcingJ(_, _, _)
ForcingJ(M, v, T) ==
    IF T = 1 THEN MatVec(MatPow(M, 0), v)
    ELSE VecAdd(ForcingJ(M, v, T - 1), MatVec(MatPow(M, T - 1), v))

\* Mutant: C is the position block F[:2, :2].
SensitivityC_PositionBlock(F) == Slice(F, 1, 2, 1, 2)

\* C = F[:2, 2:]
SensitivityC(F) == Slice(F, 1, 2, 3, 4)

\* Mutant: d leaves out the accumulated forcing j.
OffsetD_NoForcing(F, j, p0) == MatVec(Slice(F, 1, 2, 1, 2), p0)

\* d = F[:2, :2] @ np.array(params['p0']) + j[:2]
OffsetD(F, j, p0) == VecAdd(MatVec(Slice(F, 1, 2, 1, 2), p0), SubSeq(j, 1, 2))

\* Mutant: a determinant below 1e-6 in absolute value counts as singular.
Singular_Tolerance(C) == RLess(RAbs(Det2(C)), <<1, 1000000>>)

\* np.linalg.inv(C) raises LinAlgError exactly when C is singular
Singular(C) == Det2(C) = R(0)

\* Mutant: d also counts the contribution C.v0 of the record's own v0.
calculate_optimal_v0_UsesV0(p, tg) ==
    LET Ab == compute_dynamics(p)
        T == p.T
        F == PowerF(Ab[1], T)
        j == ForcingJ(Ab[1], Ab[2], T)
        C == SensitivityC(F)
        d == VecAdd(OffsetD(F, j, p.p0), MatVec(C, p.v0))
    IN  IF Singular(C)
        THEN [kind |-> "ValueError", val |-> <<>>]
        ELSE [kind |-> "value", val |-> MatVec(Inv2(C), VecSub(tg, d))]

\* calculate_optimal_v0(params, target): the velocity, or the ValueError
calculate_optimal_v0(p, tg) ==
    LET Ab == compute_dynamics(p)
        T == p.T
        F == PowerF(Ab[1], T)
        j == ForcingJ(Ab[1], Ab[2], T)
        C == SensitivityC(F)
        d == OffsetD(F, j, p.p0)
    IN  IF Singular(C)
        THEN [kind |-> "ValueError", val |-> <<>>]
        ELSE [kind |-> "value", val |-> MatVec(Inv2(C), VecSub(tg, d))]

(***************************************************************************)
(* Inputs: the parameter records and targets a caller passes.  Every       *)
(* record is valid (m > 0, h > 0, eta >= 0, T >= 1).  drag_factor takes    *)
(* the values 1, 3/4, 1/2, 0, -1 (singular C for even T) and -3 (unstable).*)
(* The numbers are small enough for every intermediate result to stay      *)
(* within the integers TLC computes with.                                  *)
(***************************************************************************)
\* A record without the optional 'label' key; add_trajectory's label
\* f"v0=({x:.1f}, {y:.1f})" is <<"v0", x, y>> with x and y rounded to tenths.
NoLabel == <<>>

P0Set == { <<R(0), R(0)>>, <<R(1), R(-2)>> }

V0Set == { <<R(3), R(4)>>, <<R(-1), Q(1, 2)>> }

WSet == { <<R(0), R(0)>>, <<R(-10), R(2)>> }

EtaSet == { R(0), R(1), R(4) }

MSet == { R(1), R(2) }

GSet == { <<R(0), Q(-49, 5)>>, <<R(1), R(-2)>> }

HSet == { Q(1, 2), R(1) }

Grid ==
    [p0 : P0Set, v0 : V0Set, w : WSet, eta : EtaSet, m : MSet, g : GSet,
     h : HSet, T : 1..MaxT, label : {NoLabel}]

\* p0=(0,0), w=(0,0), eta=0, m=1, g=(0,-9.8), h=0.1, T=10
Scenario ==
    [p0 |-> <<R(0), R(0)>>, v0 |-> <<R(0), R(0)>>, w |-> <<R(0), R(0)>>,
     eta |-> R(0), m |-> R(1), g |-> <<R(0), Q(-49, 5)>>, h |-> Q(1, 10),
     T |-> 10, label |-> NoLabel]

\* drag_factor = 1 - 1.9999 = -0.9999 and T = 2: C = 0.0001 * I, det C = 1e-8
NearSingular ==
    [p0 |-> <<R(1), R(-2)>>, v0 |-> <<R(3), R(4)>>, w |-> <<R(0), R(0)>>,
     eta |-> R(1), m |-> Q(10000, 19999), g |-> <<R(0), R(-10)>>, h |-> R(1),
     T |-> 2, label |-> NoLabel]

Records == Grid \cup {Scenario, NearSingular}

Targets == { <<R(5), R(5)>>, <<R(-1), R(3)>> }

\* The records a caller of the registry builds: one with a label, one without.
RegRecords ==
    { [NearSingular EXCEPT !.label = <<"v0", R(3), R(4)>>],
      Scenario }

\* The engine is called on a fresh simulator and on one whose registry holds
\* the records of two earlier add_simulation calls.
SeedRegistries ==
    { <<>>,
      << [NearSingular EXCEPT !.label = <<"v0", R(3), R(4)>>], Scenario >> }

(***************************************************************************)
(* The GUI's parameter form.  The text of an entry is modelled by what     *)
(* python makes of it: empty, not a number ("abc"), a decimal literal      *)
(* ("50.0": float() parses it, int() does not) or an integer literal       *)
(* ("100": both parse it).                                                 *)
(***************************************************************************)
Empty == [kind |-> "empty", num |-> R(0), isint |-> FALSE]

Garbage == [kind |-> "text", num |-> R(0), isint |-> FALSE]

DecText(q) == [kind |-> "num", num |-> q, isint |-> FALSE]

IntText(n) == [kind |-> "num", num |-> R(n), isint |-> TRUE]

Keys == {"p0_x", "p0_y", "v0_speed", "v0_angle", "w_x", "w_y", "eta", "m", "T", "h"}

\* create_parameter_inputs: each entry holds str(default)
DefaultEntries ==
    [p0_x |-> DecText(R(0)), p0_y |-> DecText(R(0)), v0_speed |-> DecText(R(50)),
     v0_angle |-> DecText(R(45)), w_x |-> DecText(R(-10)), w_y |-> DecText(R(0)),
     eta |-> DecText(Q(1, 20)), m |-> DecText(R(5)), T |-> IntText(100), h |-> DecText(Q(1, 10))]

\* create_parameter_inputs: the fields with a (min, max) validation
Validated == {"v0_speed", "v0_angle", "eta", "m", "T", "h"}

ValidRange ==
    [v0_speed |-> <<R(0), R(500)>>, v0_angle |-> <<R(0), R(90)>>,
     eta |-> <<R(0), R(1)>>, m |-> <<Q(1, 10), R(100)>>,
     T |-> <<R(1), R(1000)>>, h |-> <<Q(1, 1000), R(1)>>]

RLeq(p, q) == ~RLess(q, p)

\* Mutant: every number is accepted, whatever the range.
validate_number_NoRange(value, min_val, max_val) ==
    value.kind = "empty" \/ value.kind = "num"

\* validate_number(value, min_val, max_val)
validate_number(value, min_val, max_val) ==
    IF value.kind = "empty" THEN TRUE
    ELSE IF value.kind = "num" THEN RLeq(min_val, value.num) /\ RLeq(value.num, max_val)
    ELSE FALSE

\* The texts the user puts into a field in this model (a field not named
\* keeps its default).
Typed ==
    [p0_x |-> {DecText(R(0)), Garbage},
     v0_speed |-> {DecText(R(50)), Empty},
     v0_angle |-> {DecText(R(45)), IntText(90)},
     m |-> {DecText(R(5)), IntText(0)},
     T |-> {IntText(100), DecText(Q(3, 2))}]

\* create_target_inputs: both target entries are created empty
NoTarget == [x |-> Empty, y |-> Empty]

\* No loop over the registry is running.
NoIteration == -1

\* No loop over the registry has finished yet; afterwards observed is
\* <<the records the last finished loop drew>>.
NoListing == <<>>

\* No call is running and none has returned yet; there is one simulator, the
\* GUI's, whose list object (number 1) is held in simulations.
InitCaller ==
    /\ pc = "idle"
    /\ A = <<>>
    /\ b = <<>>
    /\ x = <<>>
    /\ trajectory = <<>>
    /\ t = 0
    /\ stop = 0
    /\ written = {}
    /\ ret = NoRet
    /\ aim = <<>>
    /\ entries = DefaultEntries
    /\ dialogs = <<>>
    /\ target = NoTarget
    /\ owner = <<1>>
    /\ lists = <<>>
    /\ it = NoIteration
    /\ listing = <<>>
    /\ observed = NoListing

Init ==
    /\ simulations \in SeedRegistries
    /\ params \in Records
    /\ InitCaller
    /\ log = [i \in 1..Len(simulations) |-> <<"add", simulations[i]>>]

(***************************************************************************)
(* The engine is synchronous: the caller makes a call when no call runs    *)
(* and it has taken the previous call's outcome.                           *)
(***************************************************************************)
CanCall == pc = "idle" /\ ret = NoRet

(***************************************************************************)
(* A call of compute_dynamics(params).                                     *)
(***************************************************************************)
ComputeDynamics ==
    /\ CanCall
    /\ ret' = [op |-> "compute_dynamics", kind |-> "value",
               val |-> compute_dynamics(params), arg |-> <<>>]
    /\ UNCHANGED <<simulations, params, pc, locals, written, aim, log, gui, elsewhere>>

(***************************************************************************)
(* simulate(params): lines 77-80, then one action per loop iteration       *)
(* (lines 82-84), then the return (line 85).                               *)
(***************************************************************************)
\* Mutant: the loop is range(1, T).
RangeStop_Short(p) == p.T

\* the end of range(1, params['T'] + 1)
RangeStop(p) == p.T + 1

\* Mutant: trajectory[0] is left as np.zeros made it.
SimulateBegin_NoP0 ==
    /\ CanCall
    /\ pc' = "simulate"
    /\ LET Ab == compute_dynamics(params)
       IN  A' = Ab[1] /\ b' = Ab[2]
    /\ x' = params.p0 \o params.v0
    /\ trajectory' = ZerosMat(params.T + 1, 2)
    /\ written' = {}
    /\ t' = 0
    /\ stop' = RangeStop(params)
    /\ ret' = NoRet
    /\ UNCHANGED <<simulations, params, aim, log, gui, elsewhere>>

SimulateBegin ==
    /\ CanCall
    /\ pc' = "simulate"
    /\ LET Ab == compute_dynamics(params)
       IN  A' = Ab[1] /\ b' = Ab[2]
    /\ x' = params.p0 \o params.v0
    /\ trajectory' = [ZerosMat(params.T + 1, 2) EXCEPT ![1] = params.p0]
    /\ written' = {0}
    /\ t' = 0
    /\ stop' = RangeStop(params)
    /\ ret' = NoRet
    /\ UNCHANGED <<simulations, params, aim, log, gui, elsewhere>>

\* Mutant: the position is recorded before the state is advanced.
SimulateStep_RecordsBefore ==
    /\ pc = "simulate"
    /\ t + 1 < stop
    /\ t' = t + 1
    /\ x' = VecAdd(MatVec(A, x), b)
    /\ trajectory' = [trajectory EXCEPT ![t' + 1] = SubSeq(x, 1, 2)]
    /\ written' = written \cup {t'}
    /\ UNCHANGED <<simulations, params, pc, A, b, stop, ret, aim, log, gui, elsewhere>>

SimulateStep ==
    /\ pc = "simulate"
    /\ t + 1 < stop
    /\ t' = t + 1
    /\ x' = VecAdd(MatVec(A, x), b)
    /\ trajectory' = [trajectory EXCEPT ![t' + 1] = SubSeq(x', 1, 2)]
    /\ written' = written \cup {t'}
    /\ UNCHANGED <<simulations, params, pc, A, b, stop, ret, aim, log, gui, elsewhere>>

SimulateReturn ==
    /\ pc = "simulate"
    /\ ~(t + 1 < stop)
    /\ ret' = [op |-> "simulate", kind |-> "value", val |-> trajectory, arg |-> <<>>]
    /\ pc' = "idle"
    /\ A' = <<>>
    /\ b' = <<>>
    /\ x' = <<>>
    /\ trajectory' = <<>>
    /\ t' = 0
    /\ stop' = 0
    /\ UNCHANGED <<simulations, params, written, aim, log, gui, elsewhere>>

(***************************************************************************)
(* A call of calculate_optimal_v0(params, target).                         *)
(***************************************************************************)
\* Mutant: the solver stores the velocity it found in the caller's record.
CalculateOptimalV0_WritesRecord ==
    /\ CanCall
    /\ \E tg \in Targets :
          LET r == calculate_optimal_v0(params, tg)
          IN  /\ ret' = [op |-> "calculate_optimal_v0", kind |-> r.kind,
                         val |-> r.val, arg |-> tg]
              /\ params' = IF r.kind = "value" THEN [params EXCEPT !.v0 = r.val]
                           ELSE params
    /\ UNCHANGED <<simulations, pc, locals, written, aim, log, gui, elsewhere>>

CalculateOptimalV0 ==
    /\ CanCall
    /\ \E tg \in Targets :
          LET r == calculate_optimal_v0(params, tg)
          IN  ret' = [op |-> "calculate_optimal_v0", kind |-> r.kind,
                      val |-> r.val, arg |-> tg]
    /\ UNCHANGED <<simulations, params, pc, locals, written, aim, log, gui, elsewhere>>

(***************************************************************************)
(* The caller replaces v0 in its record by the velocity the solver         *)
(* returned (the round trip of solve and simulate).                        *)
(***************************************************************************)
UseOptimalV0 ==
    /\ pc = "idle"
    /\ ret.op = "calculate_optimal_v0"
    /\ ret.kind = "value"
    /\ params' = [params EXCEPT !.v0 = ret.val]
    /\ aim' = ret.arg
    /\ ret' = NoRet
    /\ UNCHANGED <<simulations, pc, locals, written, log, gui, elsewhere>>

(***************************************************************************)
(* The caller takes the outcome of the last call and drops it.             *)
(***************************************************************************)
TakeResult ==
    /\ pc = "idle"
    /\ ret # NoRet
    /\ ret' = NoRet
    /\ UNCHANGED <<simulations, params, pc, locals, written, aim, log, gui, elsewhere>>

(***************************************************************************)
(* The registry: add_simulation(params) and clear_simulations().           *)
(***************************************************************************)
\* Mutant: a record equal to one already present is not added again.
add_simulation_Dedup(sims, p) ==
    IF \E i \in 1..Len(sims) : sims[i] = p THEN sims ELSE Append(sims, p)

\* Mutant: the record is inserted at the front.
add_simulation_AtFront(sims, p) == <<p>> \o sims

\* self.simulations.append(params)
add_simulation(sims, p) == Append(sims, p)

\* self.simulations.clear()
clear_simulations(sims) == <<>>

AddSimulation ==
    /\ CanCall
    /\ Len(log) < MaxCalls
    /\ simulations' = add_simulation(simulations, params)
    /\ log' = Append(log, <<"add", params>>)
    /\ UNCHANGED <<params, pc, locals, written, ret, aim, gui, elsewhere>>

ClearSimulations ==
    /\ CanCall
    /\ Len(log) < MaxCalls
    /\ simulations' = clear_simulations(simulations)
    /\ log' = Append(log, <<"clear">>)
    /\ UNCHANGED <<params, pc, locals, written, ret, aim, gui, elsewhere>>

(***************************************************************************)
(* The caller builds another parameter record.                             *)
(***************************************************************************)
NewRecord ==
    /\ CanCall
    /\ \E p \in RegRecords : params' = p
    /\ aim' = <<>>
    /\ UNCHANGED <<simulations, pc, locals, written, ret, log, gui, elsewhere>>

\* The user replaces the text of one field; a validated field accepts the
\* new text only if validate_number accepts it (validate="key").
EditEntry ==
    /\ CanCall
    /\ \E key \in DOMAIN Typed :
          \E text \in Typed[key] :
             /\ key \in Validated =>
                   validate_number(text, ValidRange[key][1], ValidRange[key][2])
             /\ entries' = [entries EXCEPT ![key] = text]
    /\ dialogs' = <<>>
    /\ UNCHANGED <<simulations, params, pc, locals, written, ret, aim, log, elsewhere>>

\* cos and sin of the angles (degrees) the model's form holds, cut to four
\* decimals: 0, 90, 53.13 and -53.13 (the directions (3, 4) and (3, -4)),
\* and 45 degrees.
CosSin(angle_deg) ==
    IF angle_deg = R(0) THEN <<R(1), R(0)>>
    ELSE IF angle_deg = R(90) THEN <<R(0), R(1)>>
    ELSE IF angle_deg = Q(5313, 100) THEN <<Q(3, 5), Q(4, 5)>>
    ELSE IF angle_deg = Q(-5313, 100) THEN <<Q(3, 5), Q(-4, 5)>>
    ELSE <<Q(7071, 10000), Q(7071, 10000)>>

\* polar_to_vector(speed, angle_deg)
polar_to_vector(speed, angle_deg) ==
    <<RMul(speed, CosSin(angle_deg)[1]), RMul(speed, CosSin(angle_deg)[2])>>

\* get_params(): [ok |-> TRUE, rec |-> the record], or ok = FALSE when it
\* showed the error box and returned None
get_params(e) ==
    LET filled == \A key \in Keys : e[key].kind # "empty"
        parsed == (\A key \in Keys : e[key].kind = "num") /\ e["T"].isint
        rec == [p0 |-> <<e["p0_x"].num, e["p0_y"].num>>,
                v0 |-> polar_to_vector(e["v0_speed"].num, e["v0_angle"].num),
                w |-> <<e["w_x"].num, e["w_y"].num>>,
                eta |-> e["eta"].num,
                m |-> e["m"].num,
                T |-> e["T"].num[1],
                h |-> e["h"].num,
                g |-> <<R(0), Q(-49, 5)>>,
                label |-> NoLabel]
    IN  IF ~filled \/ ~parsed THEN [ok |-> FALSE, rec |-> rec]
        ELSE IF RLeq(rec.m, R(0)) THEN [ok |-> FALSE, rec |-> rec]
        ELSE IF RLeq(rec.h, R(0)) THEN [ok |-> FALSE, rec |-> rec]
        ELSE [ok |-> TRUE, rec |-> rec]

\* f"{q:.1f}": q rounded to a tenth (halves to the even digit)
Fmt1(q) ==
    LET s == RMul(q, R(10))
        f == s[1] \div s[2]
        twice == 2 * (s[1] - f * s[2])
        r == IF twice > s[2] THEN f + 1
             ELSE IF twice < s[2] THEN f
             ELSE IF f % 2 = 0 THEN f ELSE f + 1
    IN  Q(r, 10)

\* f"v0=({params['v0'][0]:.1f}, {params['v0'][1]:.1f})"
LabelOf(v0) == <<"v0", Fmt1(v0[1]), Fmt1(v0[2])>>

\* Mutant: the record is appended as get_params returned it, without a label.
AddTrajectory_NoLabel ==
    /\ CanCall
    /\ Len(log) < MaxCalls
    /\ LET got == get_params(entries)
       IN  IF got.ok
           THEN /\ simulations' = add_simulation(simulations, got.rec)
                /\ log' = Append(log, <<"add", got.rec>>)
                /\ dialogs' = <<>>
           ELSE /\ dialogs' = <<"input error">>
                /\ UNCHANGED <<simulations, log>>
    /\ UNCHANGED <<params, pc, locals, written, ret, aim, entries, elsewhere>>

\* add_trajectory()
AddTrajectory ==
    /\ CanCall
    /\ Len(log) < MaxCalls
    /\ LET got == get_params(entries)
           labelled == [got.rec EXCEPT !.label = LabelOf(got.rec.v0)]
       IN  IF got.ok
           THEN /\ simulations' = add_simulation(simulations, labelled)
                /\ log' = Append(log, <<"add", labelled>>)
                /\ dialogs' = <<>>
           ELSE /\ dialogs' = <<"input error">>
                /\ UNCHANGED <<simulations, log>>
    /\ UNCHANGED <<params, pc, locals, written, ret, aim, entries, elsewhere>>

\* simulate(p) raises (np.zeros of a negative size, or trajectory[0] of an
\* empty array) exactly when T < 0
SimulateRaises(p) == p.T < 0

\* plot_trajectories(): simulate and draw every record of the registry; a
\* record whose simulation raises gets an error box and is skipped.  The
\* drawing itself is not part of the state.
PlotTrajectories ==
    /\ CanCall
    /\ dialogs' = SelectSeq([i \in 1..Len(simulations) |->
                                IF SimulateRaises(simulations[i])
                                THEN "simulation error" ELSE ""],
                            LAMBDA d : d # "")
    /\ UNCHANGED <<simulations, params, pc, locals, written, ret, aim, log, entries, elsewhere>>

\* clear_all()
ClearAll ==
    /\ CanCall
    /\ Len(log) < MaxCalls
    /\ simulations' = clear_simulations(simulations)
    /\ log' = Append(log, <<"clear">>)
    /\ dialogs' = <<>>
    /\ UNCHANGED <<params, pc, locals, written, ret, aim, entries, elsewhere>>

(***************************************************************************)
(* The GUI's "compute optimal velocity" button, its target fields and the  *)
(* export button.                                                          *)
(***************************************************************************)
\* f"{q:.2f}" as the text of an entry: q rounded to a hundredth (halves to
\* the even digit)
Fmt2(q) ==
    LET s == RMul(q, R(100))
        f == s[1] \div s[2]
        twice == 2 * (s[1] - f * s[2])
        r == IF twice > s[2] THEN f + 1
             ELSE IF twice < s[2] THEN f
             ELSE IF f % 2 = 0 THEN f ELSE f + 1
    IN  DecText(Q(r, 100))

\* The square root of q, for the squares of rationals (the only norms the
\* model's forms and targets produce).
Sqrt(q) ==
    Q(CHOOSE k \in 0..q[1] : k * k = q[1], CHOOSE k \in 1..q[2] : k * k = q[2])

\* np.linalg.norm(v) of a pair
Norm(v) == Sqrt(RAdd(RMul(v[1], v[1]), RMul(v[2], v[2])))

\* np.degrees(np.arctan2(v[1], v[0])) for the directions the model's forms
\* and targets produce: the axes and the directions (3, 4) and (3, -4),
\* whose angles are 53.13 degrees to two decimals.
Degrees(v) ==
    LET vx == v[1]
        vy == v[2]
        pos(q) == RLess(R(0), q)
        neg(q) == RLess(q, R(0))
    IN  CASE vy = R(0) /\ ~neg(vx) -> R(0)
          [] vy = R(0) /\ neg(vx) -> R(180)
          [] vx = R(0) /\ pos(vy) -> R(90)
          [] vx = R(0) /\ neg(vy) -> R(-90)
          [] pos(vx) /\ RMul(R(4), vx) = RMul(R(3), vy) -> Q(5313, 100)
          [] pos(vx) /\ RMul(R(4), vx) = RMul(R(-3), vy) -> Q(-5313, 100)

\* entry.delete(0, tk.END); entry.insert(0, text) on a field with
\* validate="key": the deletion leaves "" (which validate_number accepts) and
\* the insertion takes place only if validate_number accepts the new text.
InsertText(e, key, text) ==
    IF validate_number(text, ValidRange[key][1], ValidRange[key][2])
    THEN [e EXCEPT ![key] = text]
    ELSE [e EXCEPT ![key] = Empty]

\* add_trajectory() on the form e and the registry sims: the registry, the
\* record appended (if any) and the error box (if any) afterwards
add_trajectory(e, sims) ==
    LET got == get_params(e)
        labelled == [got.rec EXCEPT !.label = LabelOf(got.rec.v0)]
    IN  IF got.ok
        THEN [simulations |-> add_simulation(sims, labelled),
              added |-> <<labelled>>, dialogs |-> <<>>]
        ELSE [simulations |-> sims, added |-> <<>>, dialogs |-> <<"input error">>]

\* float(self.target_x.get()), float(self.target_y.get())
TargetOf(tg) == <<tg.x.num, tg.y.num>>

\* calculate_optimal_v0(p, target) ends in an exception other than the
\* ValueError of a singular C when T < 1: the sum over range(T) is the int 0
\* and j[:2] raises TypeError (for T < 0 the matrix power may raise before).
SolverRaises(p) == p.T < 1

\* The boxes, form and registry after a failure inside the try block.
Failure(e, sims, text) ==
    [entries |-> e, simulations |-> sims, added |-> <<>>, dialogs |-> <<text>>]

\* Lines 268-271: the speed and the angle of v0_opt are written into the
\* form with two decimals.
ShowOptimalV0(e, v0_opt) ==
    InsertText(InsertText(e, "v0_speed", Fmt2(Norm(v0_opt))),
               "v0_angle", Fmt2(Degrees(v0_opt)))

\* Lines 272-276: the result box, then add_trajectory() on the updated form.
AddOptimal(e2, add) ==
    [entries |-> e2, simulations |-> add.simulations, added |-> add.added,
     dialogs |-> <<"result">> \o add.dialogs]

\* Mutant: after the box of a failed solve, add_trajectory() is still called.
AfterSolve_AddsAnyway(e, sims, r) ==
    IF r.kind = "ValueError"
    THEN [AddOptimal(e, add_trajectory(e, sims))
             EXCEPT !.dialogs = <<"calc error: unreachable">>]
    ELSE AddOptimal(ShowOptimalV0(e, r.val), add_trajectory(ShowOptimalV0(e, r.val), sims))

\* Lines 264-278, given the outcome r of the solver.
AfterSolve(e, sims, r) ==
    IF r.kind = "ValueError" THEN Failure(e, sims, "calc error: unreachable")
    ELSE AddOptimal(ShowOptimalV0(e, r.val), add_trajectory(ShowOptimalV0(e, r.val), sims))

\* What the try block of the GUI's calculate_optimal_v0 does on the form e
\* with the target tg and the registry sims, given the record p that
\* get_params returned: the form, the registry, the record appended (if any)
\* and the boxes shown.
TryOptimalV0(e, tg, sims, p) ==
    IF tg.x.kind = "empty" \/ tg.y.kind = "empty"
    THEN Failure(e, sims, "calc error: empty target")
    ELSE IF tg.x.kind # "num" \/ tg.y.kind # "num"
    THEN Failure(e, sims, "calc error: not a number")
    ELSE IF SolverRaises(p) THEN Failure(e, sims, "calc error: exception")
    ELSE AfterSolve(e, sims, calculate_optimal_v0(p, TargetOf(tg)))

\* BallisticGUI.calculate_optimal_v0(): get_params, then the try block
GuiCalculateOptimalV0 ==
    /\ CanCall
    /\ Len(log) < MaxCalls
    /\ \E got \in {get_params(entries)} :
          IF ~got.ok
          THEN /\ dialogs' = <<"input error">>
               /\ UNCHANGED <<simulations, log, entries>>
          ELSE \E out \in {TryOptimalV0(entries, target, simulations, got.rec)} :
                  /\ entries' = out.entries
                  /\ simulations' = out.simulations
                  /\ log' = IF out.added = <<>> THEN log
                            ELSE Append(log, <<"add", out.added[1]>>)
                  /\ dialogs' = out.dialogs
    /\ UNCHANGED <<params, pc, locals, written, ret, aim,
                   target, owner, lists, it, listing, observed>>

\* The texts the user puts into the target fields (no validation there).
TargetTyped ==
    [x |-> {IntText(3)},
     y |-> {IntText(4), IntText(-4), Garbage}]

\* The user replaces the text of one target field.
EditTarget ==
    /\ CanCall
    /\ \E key \in DOMAIN TargetTyped :
          \E text \in TargetTyped[key] :
             target' = [target EXCEPT ![key] = text]
    /\ dialogs' = <<>>
    /\ UNCHANGED <<simulations, params, pc, locals, written, ret, aim, log, entries,
                   owner, lists, it, listing, observed>>

\* The texts the user tries on the form before solving: an empty or restored
\* speed, a restored angle, and numbers outside the ranges of T, eta, m, h.
TypedSolver ==
    [v0_speed |-> {DecText(R(50)), Empty},
     v0_angle |-> {DecText(R(45))},
     T |-> {IntText(0)},
     eta |-> {DecText(Q(-1, 2))},
     m |-> {IntText(0)},
     h |-> {IntText(0)}]

\* The user replaces the text of one validated field (validate="key").
EditSolverEntry ==
    /\ CanCall
    /\ \E key \in DOMAIN TypedSolver :
          \E text \in TypedSolver[key] :
             /\ validate_number(text, ValidRange[key][1], ValidRange[key][2])
             /\ entries' = [entries EXCEPT ![key] = text]
    /\ dialogs' = <<>>
    /\ UNCHANGED <<simulations, params, pc, locals, written, ret, aim, log,
                   target, owner, lists, it, listing, observed>>

\* export_parameters(): a warning for an empty registry; otherwise the user
\* picks a file or cancels, and writing the file succeeds or fails.
ExportParameters ==
    /\ CanCall
    /\ IF simulations = <<>>
       THEN dialogs' = <<"export warning">>
       ELSE \E boxes \in { <<>>, <<"export done">>, <<"export error">> } :
               dialogs' = boxes
    /\ UNCHANGED <<simulations, params, pc, locals, written, ret, aim, log, entries,
                   target, owner, lists, it, listing, observed>>

(***************************************************************************)
(* Further simulators.  A caller constructs more BallisticSimulator        *)
(* instances and calls add_simulation and clear_simulations on them.       *)
(* owner[i] is the number of the list object that instance i's attribute   *)
(* simulations refers to; list object 1 (the first simulator's) is held in *)
(* the variable simulations, the later ones in lists.                      *)
(***************************************************************************)
\* The list instance i's self.simulations refers to.
RegistryOf(i) == IF owner[i] = 1 THEN simulations ELSE lists[owner[i]]

\* Mutant: simulations is a class attribute, one list for all instances.
Construct_ClassAttribute ==
    /\ CanCall
    /\ Len(owner) < MaxInstances
    /\ owner' = Append(owner, 1)
    /\ UNCHANGED <<simulations, params, pc, locals, written, ret, aim, log, gui,
                   target, lists, it, listing, observed>>

\* BallisticSimulator(): __init__ binds self.simulations to a new empty list
Construct ==
    /\ CanCall
    /\ Len(owner) < MaxInstances
    /\ LET id == Len(owner) + 1
       IN  /\ owner' = Append(owner, id)
           /\ lists' = lists @@ (id :> <<>>)
    /\ UNCHANGED <<simulations, params, pc, locals, written, ret, aim, log, gui,
                   target, it, listing, observed>>

\* add_simulation(params) on instance i
AddSimulationOn(i) ==
    /\ CanCall
    /\ Len(RegistryOf(i)) < MaxLen
    /\ IF owner[i] = 1
       THEN /\ simulations' = add_simulation(simulations, params)
            /\ lists' = lists
       ELSE /\ lists' = [lists EXCEPT ![owner[i]] = add_simulation(lists[owner[i]], params)]
            /\ simulations' = simulations
    /\ UNCHANGED <<params, pc, locals, written, ret, aim, log, gui,
                   target, owner, it, listing, observed>>

\* clear_simulations() on instance i
ClearSimulationsOn(i) ==
    /\ CanCall
    /\ IF owner[i] = 1
       THEN /\ simulations' = clear_simulations(simulations)
            /\ lists' = lists
       ELSE /\ lists' = [lists EXCEPT ![owner[i]] = clear_simulations(lists[owner[i]])]
            /\ simulations' = simulations
    /\ UNCHANGED <<params, pc, locals, written, ret, aim, log, gui,
                   target, owner, it, listing, observed>>

AddSimulationOther == \E i \in 2..Len(owner) : AddSimulationOn(i)

ClearSimulationsOther == \E i \in 2..Len(owner) : ClearSimulationsOn(i)

(***************************************************************************)
(* The loop of plot_trajectories over the registry, one action per         *)
(* iteration, for a reader that runs in a thread of its own.   The loop    *)
(* reads the live list: python's list iterator keeps an index it, yields   *)
(* simulations[it] while it < len(simulations) and ends otherwise.         *)
(* list.append and list.clear are atomic steps of the interpreter.         *)
(***************************************************************************)
\* for i, params in enumerate(self.simulator.simulations): the iterator is made
PlotBegin ==
    /\ it = NoIteration
    /\ it' = 0
    /\ listing' = <<>>
    /\ UNCHANGED <<simulations, params, pc, locals, written, ret, aim, log, gui,
                   target, owner, lists, observed>>

\* one iteration: the next record is fetched, simulated and drawn
PlotNext ==
    /\ it # NoIteration
    /\ it < Len(simulations)
    /\ listing' = Append(listing, simulations[it + 1])
    /\ it' = it + 1
    /\ UNCHANGED <<simulations, params, pc, locals, written, ret, aim, log, gui,
                   target, owner, lists, observed>>

\* the iterator is exhausted: the loop ends and the canvas shows the records
\* the loop drew
PlotEnd ==
    /\ it # NoIteration
    /\ it >= Len(simulations)
    /\ observed' = <<listing>>
    /\ it' = NoIteration
    /\ listing' = <<>>
    /\ UNCHANGED <<simulations, params, pc, locals, written, ret, aim, log, gui,
                   target, owner, lists>>

Next ==
    \/ ComputeDynamics
    \/ SimulateBegin
    \/ SimulateStep
    \/ SimulateReturn
    \/ CalculateOptimalV0
    \/ UseOptimalV0
    \/ TakeResult

Spec == Init /\ [][Next]_vars

(***************************************************************************)
(* The registry's specification: a fresh simulator (empty registry), a     *)
(* caller that builds records, adds them and clears, and the GUI's         *)
(* handlers on the same simulator.                                         *)
(***************************************************************************)
InitRegistry ==
    /\ simulations = <<>>
    /\ params \in RegRecords
    /\ InitCaller
    /\ log = <<>>

NextRegistry ==
    \/ NewRecord
    \/ AddSimulation
    \/ ClearSimulations
    \/ EditEntry
    \/ AddTrajectory
    \/ PlotTrajectories
    \/ ClearAll

SpecRegistry == InitRegistry /\ [][NextRegistry]_vars

(***************************************************************************)
(* Several simulators: the first one as in SpecRegistry (without the GUI), *)
(* and the instances a caller constructs besides it.                       *)
(***************************************************************************)
NextInstances ==
    \/ NewRecord
    \/ AddSimulation
    \/ ClearSimulations
    \/ Construct
    \/ AddSimulationOther
    \/ ClearSimulationsOther

SpecInstances == InitRegistry /\ [][NextInstances]_vars


(***************************************************************************)
(* Concurrent callers of one simulator: a thread that adds and clears,     *)
(* and a thread that runs the loop over the registry.  The class has no    *)
(* lock, so the steps of the two interleave freely.                        *)
(***************************************************************************)
NextConcurrent ==
    \/ NewRecord
    \/ AddSimulation
    \/ ClearSimulations
    \/ PlotBegin
    \/ PlotNext
    \/ PlotEnd

SpecConcurrent == InitRegistry /\ [][NextConcurrent]_vars


(***************************************************************************)
(* The GUI alone: every change of the registry goes through a button.      *)
(* The default form has T = 100, which is beyond the integers TLC computes *)
(* with when the solver runs, so the runs start after the user has added   *)
(* the default trajectory twice and then typed a solvable form: T = 1, or  *)
(* eta = 1, m = 0.5, h = 1, T = 2 (drag_factor = -1, a singular C).        *)
(***************************************************************************)
FormOneStep == [DefaultEntries EXCEPT !.T = IntText(1)]

FormSingular ==
    [DefaultEntries EXCEPT !.eta = IntText(1), !.m = DecText(Q(1, 2)),
                           !.h = IntText(1), !.T = IntText(2)]

\* The record add_trajectory() appends for the default form.
DefaultTrajectory == add_trajectory(DefaultEntries, <<>>).added[1]

InitGui ==
    /\ simulations = <<DefaultTrajectory, DefaultTrajectory>>
    /\ log = << <<"add", DefaultTrajectory>>, <<"add", DefaultTrajectory>> >>
    /\ params = Scenario
    /\ pc = "idle"
    /\ A = <<>>
    /\ b = <<>>
    /\ x = <<>>
    /\ trajectory = <<>>
    /\ t = 0
    /\ stop = 0
    /\ written = {}
    /\ ret = NoRet
    /\ aim = <<>>
    /\ entries \in {FormOneStep, FormSingular}
    /\ dialogs = <<>>
    /\ target = NoTarget
    /\ owner = <<1>>
    /\ lists = <<>>
    /\ it = NoIteration
    /\ listing = <<>>
    /\ observed = NoListing

NextGui ==
    \/ EditSolverEntry
    \/ EditTarget
    \/ AddTrajectory
    \/ GuiCalculateOptimalV0
    \/ ClearAll
    \/ PlotTrajectories
    \/ ExportParameters

SpecGui == InitGui /\ [][NextGui]_vars



(***************************************************************************)
(*                              The claims                                 *)
(***************************************************************************)

\* The state after k applications of x -> M.x + v, starting from x0.
RECURSIVE Iterate(_, _, _, _)
Iterate(M, v, x0, k) ==
    IF k = 0 THEN x0
    ELSE LET prev == Iterate(M, v, x0, k - 1)
         IN  IF Len(prev) = Len(v) THEN VecAdd(MatVec(M, prev), v) ELSE prev

\* x0 = [p0; v0] of the caller's record
StateX0 == params.p0 \o params.v0

Returned(op) == pc = "idle" /\ ret.op = op

\* C1: inversion round trip.  When the caller has put the velocity returned by
\* calculate_optimal_v0(params, target) into v0 and simulate has run on that
\* record, the last point of the trajectory (index T) is the target.
C1_RoundTrip ==
    (Returned("simulate") /\ aim # <<>>) => ret.val[params.T + 1] = aim

\* C1 witness: the concrete scenario (h = 0.1, T = 10, g = (0, -9.8), target
\* (5, 5)) was solved, v0 = (5, 9.41), and re-simulated.
C1_Witness ==
    /\ Returned("simulate")
    /\ aim = <<R(5), R(5)>>
    /\ params = [Scenario EXCEPT !.v0 = <<R(5), Q(941, 100)>>]

\* C2: recurrence consistency.  After t >= 1 iterations of simulate's loop the
\* state x equals the closed form F_t.x0 + j_t with F_t = A^t and
\* j_t = sum over k in 0..t-1 of A^k.b, computed as calculate_optimal_v0 does.
C2_ClosedForm ==
    (pc = "simulate" /\ t >= 1) =>
        x = VecAdd(MatVec(PowerF(A, t), StateX0), ForcingJ(A, b, t))

\* C2 witness: the loop has run to its horizon T >= 2 under drag and wind.
C2_Witness ==
    /\ pc = "simulate"
    /\ t = params.T
    /\ t >= 2
    /\ params.eta # R(0)
    /\ params.w # <<R(0), R(0)>>

\* The sensitivity matrix C of the caller's record.
CofParams == SensitivityC(PowerF(compute_dynamics(params)[1], params.T))

\* The tolerance of C3, 1e-6.
DetTol == <<1, 1000000>>

\* C3: singular detection.  Whenever C is singular or |det C| is below the
\* tolerance, calculate_optimal_v0 ends in a failure and returns no velocity.
C3_SingularDetected ==
    (Returned("calculate_optimal_v0")
        /\ (Singular(CofParams) \/ RLess(RAbs(Det2(CofParams)), DetTol)))
    => ret.kind = "ValueError"

\* C4: for every index k in 0..T the returned trajectory[k] is the position
\* part of the state after exactly k applications of x -> A.x + b from
\* [p0; v0], with (A, b) = compute_dynamics(params); the same holds of the
\* indices the loop has reached so far.
C4_TrajectoryIsRecurrence ==
    LET Ab == compute_dynamics(params)
        Pos(k) == SubSeq(Iterate(Ab[1], Ab[2], StateX0, k), 1, 2)
    IN  /\ pc = "simulate" => \A k \in 0..t : trajectory[k + 1] = Pos(k)
        /\ Returned("simulate") => \A k \in 0..params.T : ret.val[k + 1] = Pos(k)

\* C4 witness: simulate returned for T >= 2 steps with drag.
C4_Witness ==
    /\ Returned("simulate")
    /\ params.T >= 2
    /\ params.eta # R(0)
    /\ aim = <<>>

\* C5: compute_dynamics returns A = [[I, h.I], [0, (1 - h.eta/m).I]] and
\* b = [0, 0, h.(g_x + (eta/m).w_x), h.(g_y + (eta/m).w_y)], a function of
\* h, m, eta, w and g alone.
C5_Dynamics ==
    Returned("compute_dynamics") =>
        LET h == params.h
            df == RSub(R(1), RDiv(RMul(h, params.eta), params.m))
            c == RDiv(params.eta, params.m)
            o == R(0)
            e == R(1)
        IN  ret.val =
              << << <<e, o, h, o>>, <<o, e, o, h>>, <<o, o, df, o>>, <<o, o, o, df>> >>,
                 << o, o,
                    RMul(h, RAdd(params.g[1], RMul(c, params.w[1]))),
                    RMul(h, RAdd(params.g[2], RMul(c, params.w[2]))) >> >>

\* C5 witness: compute_dynamics returned for a record with drag, wind, a mass
\* other than 1 and a step other than 1.
C5_Witness ==
    /\ Returned("compute_dynamics")
    /\ params.eta = R(4)
    /\ params.m = R(2)
    /\ params.h = Q(1, 2)
    /\ params.w # <<R(0), R(0)>>
    /\ params.g[1] # R(0)

\* C6: zeroth point.  trajectory[0] equals p0, during the loop and in the
\* returned trajectory.
C6_ZerothPoint ==
    /\ pc = "simulate" => trajectory[1] = params.p0
    /\ Returned("simulate") => ret.val[1] = params.p0

\* C6 witness: simulate returned for a record whose p0 is not the origin.
C6_Witness ==
    /\ Returned("simulate")
    /\ params.p0 = <<R(1), R(-2)>>

\* C7: length.  simulate returns exactly T + 1 points, and every index 0..T
\* has been assigned.
C7_Length ==
    Returned("simulate") =>
        /\ Len(ret.val) = params.T + 1
        /\ written = 0..params.T

\* C7 witness: simulate returned for the horizons 3 and 10.
C7_Witness ==
    /\ Returned("simulate")
    /\ params.T >= 3
    /\ Len(ret.val) >= 4

\* The records added by the calls in lg since its most recent clear, in order.
RECURSIVE SinceLastClear(_)
SinceLastClear(lg) ==
    IF lg = <<>> THEN <<>>
    ELSE LET last == lg[Len(lg)]
         IN  IF last[1] = "clear" THEN <<>>
             ELSE Append(SinceLastClear(SubSeq(lg, 1, Len(lg) - 1)), last[2])

\* C8: registry ordering.  After any sequence of add_simulation and
\* clear_simulations calls the registry lists exactly the records added since
\* the most recent clear, in the order they were added (so it is empty right
\* after a clear).
C8_RegistryOrder == simulations = SinceLastClear(log)

\* C8 witness: two different records were added after a clear that removed
\* an earlier record.
C8_Witness ==
    /\ Len(log) >= 4
    /\ \E i \in 2..Len(log) : log[i][1] = "clear" /\ log[i - 1][1] = "add"
    /\ Len(simulations) = 2
    /\ simulations[1] # simulations[2]

\* C9: no deduplication, no implicit eviction.  Every call of add_simulation
\* makes the registry one longer (also for a record already present); the
\* registry gets shorter only by clear_simulations, which empties it; every
\* other step keeps the entries it held, in place and in order.
C9_AppendOnly ==
    [][ /\ (Len(log') = Len(log) + 1 /\ log'[Len(log')][1] = "add")
              => Len(simulations') = Len(simulations) + 1
        /\ Len(simulations') < Len(simulations)
              => (/\ Len(log') = Len(log) + 1
                  /\ log'[Len(log')][1] = "clear"
                  /\ simulations' = <<>>)
        /\ Len(simulations') >= Len(simulations)
              => SubSeq(simulations', 1, Len(simulations)) = simulations
        /\ log' = log => simulations' = simulations ]_vars

\* C9 witness: add_trajectory has added the same labelled record twice and
\* both copies are in the registry.
C9_Witness ==
    /\ Len(simulations) >= 2
    /\ simulations[1] = simulations[2]
    /\ simulations[1].label # NoLabel

\* One step of compute_dynamics, simulate or calculate_optimal_v0: simulate
\* starts, iterates or returns, or one of the other two returns or raises.
EngineStep ==
    \/ pc = "simulate"
    \/ pc' = "simulate"
    \/ (ret = NoRet /\ ret' # NoRet)

\* what simulate returns for record p, by the recurrence
TrajectoryOf(p) ==
    LET Ab == compute_dynamics(p)
    IN  [k \in 1..(p.T + 1) |->
            SubSeq(Iterate(Ab[1], Ab[2], p.p0 \o p.v0, k - 1), 1, 2)]

ResultFromArguments ==
    /\ Returned("compute_dynamics") => ret.val = compute_dynamics(params)
    /\ Returned("simulate") => ret.val = TrajectoryOf(params)
    /\ Returned("calculate_optimal_v0") =>
          LET r == calculate_optimal_v0(params, ret.arg)
          IN  ret.kind = r.kind /\ ret.val = r.val

\* C10: purity.  Every step of compute_dynamics, simulate and
\* calculate_optimal_v0 leaves the caller's parameter record and the registry
\* unchanged, and what each returns is determined by its arguments alone,
\* whatever the registry holds and whatever was called before.
C10_Pure ==
    /\ [][EngineStep => (params' = params /\ simulations' = simulations)]_vars
    /\ []ResultFromArguments

\* C10 witness: the solver returned a velocity on a simulator whose registry
\* holds records.
C10_Witness ==
    /\ Returned("calculate_optimal_v0")
    /\ ret.kind = "value"
    /\ simulations # <<>>

\* 1 - h.eta/m of the caller's record
DragFactorOf(p) == RSub(R(1), RDiv(RMul(p.h, p.eta), p.m))

\* drag_factor lies outside [-1, 1]
Unstable(p) == RLess(DragFactorOf(p), R(-1)) \/ RLess(R(1), DragFactorOf(p))

\* The positions x -> M.x + v visits from x0 in n steps, written out with the
\* velocity block of M being df.I: p_{k+1} = p_k + h.v_k,
\* v_{k+1} = df.v_k + f.
RECURSIVE Unrolled(_, _, _, _, _, _)
Unrolled(pos, vel, h, df, f, n) ==
    IF n = 0 THEN <<pos>>
    ELSE <<pos>> \o Unrolled(VecAdd(pos, ScalVec(h, vel)),
                             VecAdd(ScalVec(df, vel), f), h, df, f, n - 1)

\* C11: no clamping of unstable parameters.  When drag_factor = 1 - h.eta/m
\* lies outside [-1, 1], the A compute_dynamics returns (and the A simulate
\* iterates with) carries that value unchanged on its velocity diagonal, and
\* simulate ends in a returned trajectory, never in an error, whose positions
\* are those of the recurrence with that drag_factor.
C11_NoClamping ==
    Unstable(params) =>
        /\ Returned("compute_dynamics") =>
              /\ ret.val[1][3][3] = DragFactorOf(params)
              /\ ret.val[1][4][4] = DragFactorOf(params)
        /\ pc = "simulate" =>
              A[3][3] = DragFactorOf(params) /\ A[4][4] = DragFactorOf(params)
        /\ Returned("simulate") =>
              /\ ret.kind = "value"
              /\ ret.val = Unrolled(params.p0, params.v0, params.h,
                                    DragFactorOf(params),
                                    ScalVec(params.h,
                                            VecAdd(params.g,
                                                   ScalVec(RDiv(params.eta, params.m),
                                                           params.w))),
                                    params.T)

\* C11 witness: simulate returned for drag_factor = -3 and T = 3, and the
\* last step is longer than the first (the positions diverge).
C11_Witness ==
    /\ Returned("simulate")
    /\ DragFactorOf(params) = R(-3)
    /\ params.T = 3
    /\ params.w # <<R(0), R(0)>>
    /\ RLess(RAbs(RSub(ret.val[2][1], ret.val[1][1])),
             RAbs(RSub(ret.val[4][1], ret.val[3][1])))

\* The velocities a second record carries in place of the caller's v0.
OtherV0 == V0Set \ {params.v0}

\* C12: the solver's result does not depend on v0.  What
\* calculate_optimal_v0 returned for the caller's record and target (a
\* velocity or the failure) is what it returns for the same target and every
\* record that differs from the caller's in v0 only.
C12_V0Independent ==
    Returned("calculate_optimal_v0") =>
        \A v \in OtherV0 :
            LET r == calculate_optimal_v0([params EXCEPT !.v0 = v], ret.arg)
            IN  r.kind = ret.kind /\ r.val = ret.val

\* C12 witness: the solver returned a velocity for a record with drag and
\* wind whose v0 is one of two different velocities of the grid.
C12_Witness ==
    /\ Returned("calculate_optimal_v0")
    /\ ret.kind = "value"
    /\ params.v0 = <<R(-1), Q(1, 2)>>
    /\ params.eta # R(0)
    /\ params.w # <<R(0), R(0)>>
    /\ ret.val # <<R(0), R(0)>>

\* p0 + k.h.v0 + (k.(k-1)/2).h^2.g
Projectile(p, k) ==
    VecAdd(p.p0,
           VecAdd(ScalVec(RMul(R(k), p.h), p.v0),
                  ScalVec(RMul(Q(k * (k - 1), 2), RMul(p.h, p.h)), p.g)))

\* C13: no-drag analytic match.  With eta = 0, for every k in 0..T the
\* returned trajectory[k] is p0 + k.h.v0 + (k.(k-1)/2).h^2.g, whatever the
\* wind; the same holds of the points the loop has written so far.
C13_NoDragClosedForm ==
    params.eta = R(0) =>
        /\ pc = "simulate" =>
              \A k \in 0..t : trajectory[k + 1] = Projectile(params, k)
        /\ Returned("simulate") =>
              \A k \in 0..params.T : ret.val[k + 1] = Projectile(params, k)

\* C13 witness: simulate returned for eta = 0 with wind, a moving start,
\* gravity in both coordinates and T = 3.
C13_Witness ==
    /\ Returned("simulate")
    /\ params.eta = R(0)
    /\ params.T = 3
    /\ params.w # <<R(0), R(0)>>
    /\ params.v0 = <<R(3), R(4)>>
    /\ params.g[1] # R(0)
    /\ params.h = Q(1, 2)

\* sum over k in 0..n-1 of M^k.v
RECURSIVE SumPowers(_, _, _)
SumPowers(M, v, n) ==
    IF n = 0 THEN Zeros(Len(v))
    ELSE VecAdd(SumPowers(M, v, n - 1), MatVec(MatPow(M, n - 1), v))

\* C17: solver algorithm.  With (A, b) = compute_dynamics(params), F = A^T,
\* j = sum over k in 0..T-1 of A^k.b, C = rows 0-1, columns 2-3 of F and
\* d = (rows 0-1, columns 0-1 of F).p0 + (rows 0-1 of j), a velocity v0
\* returned by calculate_optimal_v0(params, target) satisfies
\* C.v0 = target - d.
C17_SolvesLinearSystem ==
    (Returned("calculate_optimal_v0") /\ ret.kind = "value") =>
        LET Ab == compute_dynamics(params)
            F == MatPow(Ab[1], params.T)
            j == SumPowers(Ab[1], Ab[2], params.T)
            C == << <<F[1][3], F[1][4]>>, <<F[2][3], F[2][4]>> >>
            P == << <<F[1][1], F[1][2]>>, <<F[2][1], F[2][2]>> >>
            d == VecAdd(MatVec(P, params.p0), <<j[1], j[2]>>)
        IN  MatVec(C, ret.val) = VecSub(ret.arg, d)

\* C17 witness: the solver returned a velocity for T = 3 with drag, wind and
\* a start away from the origin, where C is not the identity.
C17_Witness ==
    /\ Returned("calculate_optimal_v0")
    /\ ret.kind = "value"
    /\ params.T = 3
    /\ params.eta = R(1)
    /\ params.m = R(2)
    /\ params.w # <<R(0), R(0)>>
    /\ params.p0 # <<R(0), R(0)>>
    /\ CofParams # Eye(2)

RECURSIVE RPow(_, _)
RPow(q, k) == IF k = 0 THEN R(1) ELSE RMul(q, RPow(q, k - 1))

\* sum over k in 0..n-1 of q^k
RECURSIVE GeometricSum(_, _)
GeometricSum(q, n) ==
    IF n = 0 THEN R(0) ELSE RAdd(GeometricSum(q, n - 1), RPow(q, n - 1))

\* h > 0, m > 0, eta >= 0, T >= 1
ValidParams(p) ==
    /\ RLess(R(0), p.h)
    /\ RLess(R(0), p.m)
    /\ ~RLess(p.eta, R(0))
    /\ p.T >= 1

\* C18: for a valid record (h > 0, m > 0, eta >= 0, T >= 1) the sensitivity
\* matrix is C = h.(sum over k in 0..T-1 of drag_factor^k).I; a call of
\* calculate_optimal_v0 fails exactly when drag_factor = -1 and T is even
\* (then C is singular), and otherwise returns a velocity with which the
\* trajectory ends on the target.
C18_SingularOnlyAtMinusOne ==
    (Returned("calculate_optimal_v0") /\ ValidParams(params)) =>
        LET df == DragFactorOf(params)
            S == GeometricSum(df, params.T)
            Ab == compute_dynamics(params)
        IN  /\ CofParams = ScalMat(RMul(params.h, S), Eye(2))
            /\ Singular(CofParams) <=> (df = R(-1) /\ params.T % 2 = 0)
            /\ ret.kind = "ValueError" <=> (df = R(-1) /\ params.T % 2 = 0)
            /\ ret.kind # "ValueError" =>
                  /\ ret.kind = "value"
                  /\ SubSeq(Iterate(Ab[1], Ab[2], params.p0 \o ret.val, params.T), 1, 2)
                        = ret.arg

\* C18 witness: the solver failed for drag_factor = -1 and T = 2.
C18_Witness ==
    /\ Returned("calculate_optimal_v0")
    /\ ValidParams(params)
    /\ DragFactorOf(params) = R(-1)
    /\ params.T = 2
    /\ ret.kind = "ValueError"

\* C16: the registry belongs to its simulator.  A call of add_simulation or
\* clear_simulations on one BallisticSimulator instance leaves the registry
\* of every other instance as it was.
C16_InstanceOwned ==
    [][ /\ (AddSimulation \/ ClearSimulations) =>
              \A j \in 2..Len(owner) : RegistryOf(j)' = RegistryOf(j)
        /\ \A i \in 2..Len(owner) :
              (AddSimulationOn(i) \/ ClearSimulationsOn(i)) =>
                  \A j \in (1..Len(owner)) \ {i} : RegistryOf(j)' = RegistryOf(j) ]_vars

\* C16 witness: a second simulator holds two records while the first
\* simulator's registry, which held a record, has been cleared.
C16_Witness ==
    /\ Len(owner) = 2
    /\ Len(RegistryOf(2)) = 2
    /\ simulations = <<>>
    /\ Len(log) >= 2
    /\ log[Len(log)][1] = "clear"
    /\ log[Len(log) - 1][1] = "add"

\* The contents the registry has had: after each prefix of the calls made.
RegistryHistory == { SinceLastClear(SubSeq(log, 1, n)) : n \in 0..Len(log) }

\* C15: registry serialization.  With adds, clears and listings invoked by
\* concurrent callers, every finished listing (the records a loop over the
\* registry saw) is the content the registry had after some prefix of the
\* adds and clears in the order they took effect; it never mixes records of
\* before and after a clear or skips a record.
C15_ListingsSerialized ==
    observed # NoListing => observed[1] \in RegistryHistory

\* C14: validation boundary.  No form the GUI can hold makes get_params
\* return a record with m <= 0, h <= 0, T < 1 or eta < 0 (key validation
\* refuses such text, get_params checks m and h again), and a form with an
\* empty field makes it return no record; a handler whose get_params fails
\* shows the input-error box and leaves the registry alone.  So every record
\* handed to the solver or held in the registry (and simulated from there) is
\* valid.
C14_ValidationBoundary ==
    /\ [](/\ get_params(entries).ok => ValidParams(get_params(entries).rec)
          /\ (\E key \in Keys : entries[key].kind = "empty") => ~get_params(entries).ok
          /\ \A i \in 1..Len(simulations) : ValidParams(simulations[i]))
    /\ [][((AddTrajectory \/ GuiCalculateOptimalV0) /\ ~get_params(entries).ok)
             => (dialogs' = <<"input error">> /\ simulations' = simulations)]_vars

\* C14 witness: the user emptied the speed field and a handler's get_params
\* reported the error, with records in the registry.
C14_Witness ==
    /\ entries["v0_speed"].kind = "empty"
    /\ dialogs = <<"input error">>
    /\ Len(simulations) >= 3

\* The solver returns a velocity for the form and the target fields.
Solvable ==
    /\ get_params(entries).ok
    /\ target.x.kind = "num"
    /\ target.y.kind = "num"
    /\ ~SolverRaises(get_params(entries).rec)
    /\ calculate_optimal_v0(get_params(entries).rec, TargetOf(target)).kind = "value"

\* C19: in the GUI's calculate_optimal_v0, when the solver fails, or a
\* target field is empty or not a number (or get_params fails), an error box
\* is shown and the registry afterwards equals the registry before; a record
\* is appended only after the solver returned a velocity (the result box was
\* shown).
C19_FailureAddsNothing ==
    [][GuiCalculateOptimalV0 =>
          /\ ~Solvable =>
                /\ simulations' = simulations
                /\ dialogs' \in { <<"input error">>, <<"calc error: empty target">>,
                                  <<"calc error: not a number">>,
                                  <<"calc error: exception">>,
                                  <<"calc error: unreachable">> }
          /\ simulations' # simulations => (Solvable /\ dialogs'[1] = "result")]_vars

\* C19 witness: the solver failed on the singular form (drag_factor = -1,
\* T = 2) for a numeric target, the failure was reported, and the registry
\* holds what it held.
C19_Witness ==
    /\ dialogs = <<"calc error: unreachable">>
    /\ entries["T"] = IntText(2)
    /\ target.x.kind = "num"
    /\ target.y.kind = "num"
    /\ simulations = <<DefaultTrajectory, DefaultTrajectory>>

\* C20: after any sequence of GUI actions every record in the registry has
\* m > 0 and h > 0, carries p0, v0, w, eta, m, T, h and g, and has the label
\* add_trajectory makes of its v0; a record enters the registry only as the
\* labelled record of a successful get_params on the form, and a handler
\* whose get_params fails leaves the registry unchanged.
C20_RegistryFromGetParams ==
    /\ [](\A i \in 1..Len(simulations) :
             /\ RLess(R(0), simulations[i].m)
             /\ RLess(R(0), simulations[i].h)
             /\ {"p0", "v0", "w", "eta", "m", "T", "h", "g"} \subseteq DOMAIN simulations[i]
             /\ simulations[i].label # NoLabel
             /\ simulations[i].label = LabelOf(simulations[i].v0))
    /\ [][/\ Len(simulations') > Len(simulations) =>
                /\ get_params(entries').ok
                /\ simulations' =
                      Append(simulations,
                             [get_params(entries').rec
                                 EXCEPT !.label = LabelOf(get_params(entries').rec.v0)])
          /\ (AddTrajectory /\ ~get_params(entries).ok) => simulations' = simulations
          /\ (GuiCalculateOptimalV0
                 /\ (~get_params(entries).ok \/ ~get_params(entries').ok))
                => simulations' = simulations]_vars

\* C20 witness: the registry holds the default trajectory and the record the
\* solver flow appended for the target (3, 4), labelled v0=(30.0, 40.0).
C20_Witness ==
    /\ Len(simulations) >= 3
    /\ simulations[3].label = <<"v0", R(30), R(40)>>
    /\ dialogs = <<"result">>

\* [[I, c.I], [0, e.I]] of 2x2 blocks
BlockForm(c, e) ==
    Block(Eye(2), ScalMat(c, Eye(2)), ZerosMat(2, 2), ScalMat(e, Eye(2)))

\* << M^0, M^1, ..., M^n >>, each power being the one before times M as in
\* np.linalg.matrix_power
RECURSIVE PowersOf(_, _)
PowersOf(M, n) ==
    IF n = 0 THEN << Eye(Len(M)) >>
    ELSE LET prev == PowersOf(M, n - 1)
         IN  IF Len(prev) = n THEN Append(prev, MatMul(prev[n], M)) ELSE prev

\* sum over k in 0..n-1 of P[k + 1].v
RECURSIVE SumApplied(_, _, _)
SumApplied(P, v, n) ==
    IF n = 0 THEN Zeros(Len(v))
    ELSE VecAdd(SumApplied(P, v, n - 1), MatVec(P[n], v))

\* The positions one coordinate visits in n steps when it is advanced by
\* itself: pos' = pos + h.vel, vel' = df.vel + f.
RECURSIVE AxisPositions(_, _, _, _, _, _)
AxisPositions(pos, vel, h, df, f, n) ==
    IF n = 0 THEN <<pos>>
    ELSE <<pos>> \o AxisPositions(RAdd(pos, RMul(h, vel)),
                                  RAdd(RMul(df, vel), f), h, df, f, n - 1)

\* coordinate c of record p advanced alone for T steps: only p0[c], v0[c],
\* g[c], w[c] and the scalars h, eta, m enter
AxisOf(p, c) ==
    AxisPositions(p.p0[c], p.v0[c], p.h, DragFactorOf(p),
                  RMul(p.h, RAdd(p.g[c], RMul(RDiv(p.eta, p.m), p.w[c]))), p.T)

\* coordinate c of every point of a trajectory
Coordinate(tr, c) == [k \in 1..Len(tr) |-> tr[k][c]]

\* the positions x -> M.x + v visits from x0 in n steps, the start included
RECURSIVE Positions(_, _, _, _)
Positions(M, v, x0, n) ==
    IF n = 0 THEN <<SubSeq(x0, 1, 2)>>
    ELSE <<SubSeq(x0, 1, 2)>> \o Positions(M, v, VecAdd(MatVec(M, x0), v), n - 1)

\* the trajectory of record p by the recurrence (A, b) = compute_dynamics(p)
\* from [p0; v0]
Flight(p) ==
    LET Ab == compute_dynamics(p)
    IN  Positions(Ab[1], Ab[2], p.p0 \o p.v0, p.T)

\* what is added to the inputs of one coordinate
Shifts == { R(1), R(-3) }

\* record p with s added to coordinate c of p0, v0, w and g
Shifted(p, c, s) ==
    LET Move(v) == [v EXCEPT ![c] = RAdd(v[c], s)]
    IN  [p EXCEPT !.p0 = Move(p.p0), !.v0 = Move(p.v0),
                  !.w = Move(p.w), !.g = Move(p.g)]

\* Each coordinate c of the state is advanced by itself in a step of the
\* loop: position c by h times velocity c, velocity c by the drag factor and
\* the forcing of coordinate c.
AxisStep ==
    \A c \in 1..2 :
       /\ x'[c] = RAdd(x[c], RMul(params.h, x[c + 2]))
       /\ x'[c + 2] = RAdd(RMul(DragFactorOf(params), x[c + 2]),
                           RMul(params.h, RAdd(params.g[c],
                                               RMul(RDiv(params.eta, params.m),
                                                    params.w[c]))))

\* The powers of A and the solver's F, j and d of the caller's record have
\* the block form.
SolverBlocks ==
    \E Ab \in {compute_dynamics(params)} :
       \E P \in {PowersOf(Ab[1], params.T)} :
          LET df == DragFactorOf(params)
              F == P[params.T + 1]
              j == SumApplied(P, Ab[2], params.T)
          IN  /\ \A k \in 0..params.T :
                    P[k + 1] = BlockForm(RMul(params.h, GeometricSum(df, k)),
                                         RPow(df, k))
              /\ F = PowerF(Ab[1], params.T)
              /\ j = ForcingJ(Ab[1], Ab[2], params.T)
              /\ Slice(F, 1, 2, 1, 2) = Eye(2)
              /\ OffsetD(F, j, params.p0) = VecAdd(params.p0, SubSeq(j, 1, 2))

\* Each coordinate of the first n + 1 points of trajectory tr is that
\* coordinate of the caller's record advanced alone.
AxesAlone(tr, n) ==
    \E ax \in {AxisOf(params, 1)}, ay \in {AxisOf(params, 2)} :
       \A k \in 0..n : tr[k + 1] = <<ax[k + 1], ay[k + 1]>>

\* C21: block structure.  With (A, b) = compute_dynamics(params), every power
\* A^k the solver forms (k in 0..T) is [[I, c_k.I], [0, drag_factor^k.I]] with
\* c_k = h.(sum over i in 0..k-1 of drag_factor^i); so in the solver rows 0-1,
\* columns 0-1 of F = A^T are the identity and d = p0 + (rows 0-1 of j).  The
\* coordinates of a trajectory evolve independently: every step of the loop
\* advances each coordinate of the state from that coordinate alone, each
\* coordinate of the points written so far and of the returned trajectory is
\* that coordinate advanced alone, and changing the inputs of one coordinate
\* leaves the other coordinate of every returned point unchanged.
C21_BlockStructure ==
    /\ [](Returned("calculate_optimal_v0") => SolverBlocks)
    /\ [](pc = "simulate" => AxesAlone(trajectory, t))
    /\ [](Returned("simulate") =>
             /\ AxesAlone(ret.val, params.T)
             /\ \A s \in Shifts :
                   /\ Coordinate(Flight(Shifted(params, 2, s)), 1)
                         = Coordinate(ret.val, 1)
                   /\ Coordinate(Flight(Shifted(params, 1, s)), 2)
                         = Coordinate(ret.val, 2))
    /\ [][SimulateStep => AxisStep]_vars

\* C21 witness: the solver's velocity for a record with drag, wind in both
\* coordinates, a start away from the origin and T = 3 was put into the
\* record and simulate returned the trajectory, which moves in both
\* coordinates.
C21_Witness ==
    /\ Returned("simulate")
    /\ aim # <<>>
    /\ params.T = 3
    /\ params.eta = R(1)
    /\ params.m = R(2)
    /\ params.w = <<R(-10), R(2)>>
    /\ params.p0 = <<R(1), R(-2)>>
    /\ ret.val[4][1] # ret.val[1][1]
    /\ ret.val[4][2] # ret.val[1][2]

=============================================================================
